---------------------------- MODULE Spec2Model ----------------------------
(***************************************************************************)
(* Model of src/app.py: the batch loop that reads each uploaded file,      *)
(* reconciles its headers against HEADERS, trims and filters its rows,     *)
(* and appends them to df_out, recording diagnostics in warnings_log.      *)
(*                                                                         *)
(* Representation.  A text is a sequence of tokens; a token is either one  *)
(* whitespace character (" " or "\t") or a word (a non-empty run of        *)
(* non-whitespace characters); two words are never adjacent.  A Python     *)
(* value is a record [t |-> type, s |-> str(value)]: t = "str" for text,   *)
(* t = "float" for the missing-value marker NaN that pandas reads for a    *)
(* blank cell, t = "int" for a non-text header of a workbook.  A DataFrame *)
(* is [columns |-> labels, rows |-> <<[ix |-> index label, cells |-> ..]>>]*)
(* with cells aligned to columns.  pandas semantics are those of pandas    *)
(* 1.x/2.x (object columns).                                               *)
(***************************************************************************)
EXTENDS Integers, Sequences, FiniteSets, TLC

\* ------------------------------------------------------------------ bounds
MaxFiles == 3
MaxRows == 2
MaxCols == 2
MaxCells == 4
MaxTotalRows == 2
MaxSheets == 3

\* ------------------------------------------------------------ Python text
Str(s) == [t |-> "str", s |-> s]
NaN == [t |-> "float", s |-> <<"nan">>]

IsSpace(tok) == tok \in {" ", "\t"}

RECURSIVE lstrip(_)
lstrip(s) ==
    IF s = <<>> THEN <<>>
    ELSE IF IsSpace(Head(s)) THEN lstrip(Tail(s)) ELSE s

RECURSIVE rstrip(_)
rstrip(s) ==
    IF s = <<>> THEN <<>>
    ELSE IF IsSpace(s[Len(s)]) THEN rstrip(SubSeq(s, 1, Len(s) - 1)) ELSE s

\* str.strip()
strip(s) == rstrip(lstrip(s))

\* str.split(): the words, in order
split(s) == SelectSeq(s, LAMBDA tok : ~IsSpace(tok))

\* " ".join(words)
RECURSIVE join(_)
join(words) ==
    IF words = <<>> THEN <<>>
    ELSE IF Len(words) = 1 THEN words
    ELSE <<Head(words), " ">> \o join(Tail(words))

\* str.lower() on the tokens the file names of the model use
lower(s) == [k \in DOMAIN s |-> IF s[k] = ".CSV" THEN ".csv" ELSE s[k]]

endswith(s, suffix) == Len(s) > 0 /\ s[Len(s)] = suffix

\* Series.astype(str): str() of every value, NaN included
astype_str(v) == Str(v.s)

notna(v) == v.t # "float"

\* ------------------------------------------------------------- constants
HEADERS ==
    << Str(<<"NUMERO", " ", "OBRA", " ", "ICONSTRUYE">>),
       Str(<<"MES", " ", "(MMM-AA)">>),
       Str(<<"APELLIDO", " ", "PATERNO,", " ", "APELLIDO", " ", "MATERNO", " ",
             "Y", " ", "NOMBRES", " ", "DEL", " ", "TRABAJADOR">>),
       Str(<<"RUT", " ", "TRABAJADOR", " ", "(SIN", " ", "PUNTOS", " ", "Y", " ",
             "CON", " ", "GUION)">>),
       Str(<<"DIAS", " ", "TRABAJADOS", " ">>),
       Str(<<"NUMERO", " ", "DE", " ", "CONTRATO">>),
       Str(<<"RAZON", " ", "SOCIAL", " ", "EMPRESA", " ", "SUBCONTRATISTA", " ">>),
       Str(<<"RUT", " ", "EMPRESA", " ", "SUBCONTRATISTA", " ", "(SIN", " ",
             "PUNTOS", " ", "Y", " ", "CON", " ", "GUION)">>),
       Str(<<"RAZON", " ", "SOCIAL", " ", "EMPRESA", " ", "CONTRATISTA", " ">>),
       Str(<<"RUT", " ", "EMPRESA", " ", "CONTRATISTA", " ", "(SIN", " ",
             "PUNTOS", " ", "Y", " ", "CON", " ", "GUION)">>) >>

FILE_NAME == Str(<<"File", " ", "name">>)

NUMERO_OBRA == Str(<<"NUMERO", " ", "OBRA", " ", "ICONSTRUYE">>)

ORDERED_COLS == <<FILE_NAME>> \o HEADERS

EMPTY == Str(<<>>)

\* ------------------------------------------------------------- utilities
normalize_header(name) ==
    IF name.t # "str" THEN EMPTY
    ELSE Str(join(split(strip(name.s))))

\* ------------------------------------------------------ DataFrame algebra
Range(seq) == {seq[k] : k \in DOMAIN seq}

\* pd.DataFrame()
EmptyFrame == [columns |-> <<>>, rows |-> <<>>]

\* the positions of a label among the columns
Positions(frame, key) == {k \in DOMAIN frame.columns : frame.columns[k] = key}

\* df[key] for a label held by exactly one column: the Series
GetSeries(frame, key) ==
    LET p == CHOOSE k \in Positions(frame, key) : TRUE
    IN  [r \in DOMAIN frame.rows |->
            [ix |-> frame.rows[r].ix, v |-> frame.rows[r].cells[p]]]

\* the value a Series holds at an index label (NaN where it has none)
SeriesAt(series, ix) ==
    IF \E r \in DOMAIN series : series[r].ix = ix
    THEN series[CHOOSE r \in DOMAIN series : series[r].ix = ix].v
    ELSE NaN

\* a row's cells with the column at `key` set to v (appended when new)
PutCell(frame, cells, key, v) ==
    IF Positions(frame, key) = {} THEN Append(cells, v)
    ELSE [k \in DOMAIN cells |-> IF k \in Positions(frame, key) THEN v ELSE cells[k]]

PutColumn(frame, key) ==
    IF Positions(frame, key) = {} THEN Append(frame.columns, key) ELSE frame.columns

\* frame[key] = series (a new frame: the model has no aliasing).  A frame
\* whose index is empty takes the index of the Series.
SetItemSeries(frame, key, series) ==
    IF Len(frame.rows) = 0 /\ Len(series) > 0
    THEN [columns |-> PutColumn(frame, key),
          rows |-> [r \in DOMAIN series |->
                      [ix |-> series[r].ix,
                       cells |-> PutCell(frame, [k \in DOMAIN frame.columns |-> NaN],
                                         key, series[r].v)]]]
    ELSE [columns |-> PutColumn(frame, key),
          rows |-> [r \in DOMAIN frame.rows |->
                      [ix |-> frame.rows[r].ix,
                       cells |-> PutCell(frame, frame.rows[r].cells, key,
                                         SeriesAt(series, frame.rows[r].ix))]]]

\* frame[key] = scalar: broadcast over the index the frame has (none, for
\* a frame built by pd.DataFrame() that no Series was assigned to)
SetItemScalar(frame, key, v) ==
    [columns |-> PutColumn(frame, key),
     rows |-> [r \in DOMAIN frame.rows |->
                 [ix |-> frame.rows[r].ix,
                  cells |-> PutCell(frame, frame.rows[r].cells, key, v)]]]

\* the value of a row under a label the frame holds once (NaN when absent)
CellAt(frame, r, key) ==
    IF Positions(frame, key) = {} THEN NaN
    ELSE frame.rows[r].cells[CHOOSE k \in Positions(frame, key) : TRUE]

\* frame[keys]: the columns named, in the order named
SelectColumns(frame, keys) ==
    [columns |-> keys,
     rows |-> [r \in DOMAIN frame.rows |->
                 [ix |-> frame.rows[r].ix,
                  cells |-> [k \in DOMAIN keys |-> CellAt(frame, r, keys[k])]]]]


\* a concat that puts the new rows first
concat_prepend(a, b) ==
    LET cols == a.columns \o SelectSeq(b.columns, LAMBDA c : Positions(a, c) = {})
        aligned(frame) ==
            [r \in DOMAIN frame.rows |->
                [k \in DOMAIN cols |-> CellAt(frame, r, cols[k])]]
        all == aligned(b) \o aligned(a)
    IN  [columns |-> cols,
         rows |-> [r \in DOMAIN all |-> [ix |-> r - 1, cells |-> all[r]]]]

\* pd.concat([a, b], ignore_index=True): the columns of a, then those of b
\* that a lacks (outer join, unsorted); rows re-aligned by label; the index
\* renumbered from 0
concat(a, b) ==
    LET cols == a.columns \o SelectSeq(b.columns, LAMBDA c : Positions(a, c) = {})
        aligned(frame) ==
            [r \in DOMAIN frame.rows |->
                [k \in DOMAIN cols |-> CellAt(frame, r, cols[k])]]
        all == aligned(a) \o aligned(b)
    IN  [columns |-> cols,
         rows |-> [r \in DOMAIN all |-> [ix |-> r - 1, cells |-> all[r]]]]

\* df_out = pd.DataFrame(columns=HEADERS); df_out["File name"] = ""
InitialDfOut == SetItemScalar([columns |-> HEADERS, rows |-> <<>>], FILE_NAME, EMPTY)

\* what pd.read_csv / pd.read_excel(dtype=str) return for a parsed table:
\* the raw headers as labels, a RangeIndex, the cells as read
ReadTable(table) ==
    [columns |-> table.columns,
     rows |-> [r \in DOMAIN table.rows |-> [ix |-> r - 1, cells |-> table.rows[r]]]]

\* every column of tmp has dtype object (text and NaN), so every column is
\* rewritten: astype(str), then str.strip()
trim_text_df(df) ==
    [columns |-> df.columns,
     rows |-> [r \in DOMAIN df.rows |->
                 [ix |-> df.rows[r].ix,
                  cells |-> [k \in DOMAIN df.rows[r].cells |->
                               Str(strip(astype_str(df.rows[r].cells[k]).s))]]]]

\* excel_to_bytes(df): the sheet written by to_excel(index=False)
excel_to_bytes(df) ==
    [header |-> df.columns,
     body |-> [r \in DOMAIN df.rows |-> df.rows[r].cells],
     written |-> TRUE]

\* ------------------------------------------------------- sheet selection
SheetNames(file) == [k \in DOMAIN file.sheets |-> file.sheets[k].sheet_name]

\* whether read_excel_sheet calls st.selectbox for the file
PickerConsulted(file, prefer, allow) ==
    ~(prefer \in Range(SheetNames(file))) /\ allow

\* a selection that ignores the preferred name
read_excel_sheet_first(file, prefer, allow, pick) ==
    IF ~(prefer \in Range(SheetNames(file))) /\ allow THEN pick
    ELSE SheetNames(file)[1]

\* read_excel_sheet: the sheet read; `pick` is what st.selectbox returns
read_excel_sheet(file, prefer, allow, pick) ==
    IF prefer \in Range(SheetNames(file)) THEN prefer
    ELSE IF allow THEN pick
    ELSE SheetNames(file)[1]

SheetTable(file, sheet_name) ==
    file.sheets[CHOOSE k \in DOMAIN file.sheets : file.sheets[k].sheet_name = sheet_name].table

\* --------------------------------------------------------- steps 2 to 6
\* step 2: df.rename(columns={c: normalize_header(c) for c in df.columns})
RenameColumns(df) ==
    [columns |-> [k \in DOMAIN df.columns |-> normalize_header(df.columns[k])],
     rows |-> df.rows]

\* step 3
norm_headers == [k \in DOMAIN HEADERS |-> normalize_header(HEADERS[k])]

\* step 4: [h for h in norm_headers if h in df.columns]
present_norm(df) == SelectSeq(norm_headers, LAMBDA h : Positions(df, h) # {})

\* backmap = {normalize_header(h): h for h in HEADERS}: a later key overwrites
backmap(c) ==
    HEADERS[CHOOSE k \in DOMAIN HEADERS :
                /\ norm_headers[k] = c
                /\ \A j \in DOMAIN HEADERS : norm_headers[j] = c => j <= k]

\* step 4, the loop "for c in present_norm: tmp[backmap[c]] = df[c]".  df[c]
\* is a DataFrame when several columns carry the label c, and assigning a
\* DataFrame of several columns to one key raises ValueError.
RECURSIVE BuildTmp(_, _, _)
BuildTmp(df, todo, acc) ==
    IF todo = <<>> THEN [frame |-> acc, raised |-> FALSE]
    ELSE IF Cardinality(Positions(df, Head(todo))) > 1
         THEN [frame |-> acc, raised |-> TRUE]
         ELSE BuildTmp(df, Tail(todo),
                       SetItemSeries(acc, backmap(Head(todo)), GetSeries(df, Head(todo))))

\* step 5: missing = [h for h in HEADERS if h not in tmp.columns]
MissingOf(frame) == SelectSeq(HEADERS, LAMBDA h : Positions(frame, h) = {})

RECURSIVE FillMissing(_, _)
FillMissing(frame, todo) ==
    IF todo = <<>> THEN frame
    ELSE FillMissing(SetItemScalar(frame, Head(todo), EMPTY), Tail(todo))

\* steps 5 and 6 on the frame step 4 built
Reorder(frame, file_name) ==
    SelectColumns(SetItemScalar(FillMissing(frame, MissingOf(frame)), FILE_NAME, file_name),
                  ORDERED_COLS)

\* ---------------------------------------------------------------- step 7
mask_valid(frame, row) ==
    LET v == row.cells[CHOOSE k \in Positions(frame, NUMERO_OBRA) : TRUE]
    IN  notna(v) /\ v # EMPTY

\* ------------------------------------------------------------ log lines
\* f"{name}: {removed} filas descartadas sin NUMERO OBRA ICONSTRUYE"
DiscardLine(file_name, n) == [name |-> file_name, kind |-> "descartadas", removed |-> n]
\* f"{name}: faltan columnas -> {', '.join(missing)}"
MissingLine(file_name, cols) == [name |-> file_name, kind |-> "faltan", missing |-> cols]
\* f"{name}: ERROR al procesar -> {exn}"
ErrorLine(file_name, cause) == [name |-> file_name, kind |-> "ERROR", exn |-> cause]


\* ------------------------------------------------------ the inputs drawn
\* file names, tokenised as stem and extension
NameCsv == Str(<<"a", ".csv">>)
NameXlsx == Str(<<"b", ".xlsx">>)

\* raw headers: the required column exactly; the same with whitespace drift;
\* "DIAS TRABAJADOS" with a doubled space and without the trailing space of
\* HEADERS; a column outside the schema; a non-text header (workbooks only)
hReq == Str(<<"NUMERO", " ", "OBRA", " ", "ICONSTRUYE">>)
hReqWs == Str(<<" ", "NUMERO", " ", "\t", "OBRA", " ", "ICONSTRUYE">>)
hDias == Str(<<"DIAS", " ", " ", "TRABAJADOS">>)
hExtra == Str(<<"OBSERVACIONES">>)
hInt == [t |-> "int", s |-> <<"2024">>]

CsvHeaders == {hReq, hReqWs, hDias, hExtra}
XlsxHeaders == {hReq, hInt}

\* cells as read with dtype=str: text, padded text, whitespace only, and
\* NaN for a blank cell (an empty string is never read: pandas reads NaN)
cOb1 == Str(<<"OB-1">>)
cOb2 == Str(<<" ", "OB-2", " ">>)
cBlank == Str(<<" ">>)
Cells == {cOb1, cOb2, cBlank, NaN}
BatchCells == {cOb1, cOb2, cBlank}
XlsxCells == {cOb1, NaN}

IsInjective(seq) == \A j, k \in DOMAIN seq : seq[j] = seq[k] => j = k

\* pandas renames a repeated raw header ("X", "X.1"), so raw headers differ
ColLists(hdrs) ==
    {cs \in UNION {[1..c -> hdrs] : c \in 1..MaxCols} : IsInjective(cs)}

RowLists(c, cells) ==
    UNION {[1..r -> [1..c -> cells]] : r \in {q \in 0..MaxRows : c * q <= MaxCells}}

Tables(hdrs, cells) ==
    UNION {{[columns |-> cs, rows |-> rs] : rs \in RowLists(Len(cs), cells)} :
             cs \in ColLists(hdrs)}

\* a delimited file is one table; .bad: the parser raises
CsvFile(table) ==
    [name |-> NameCsv, bad |-> FALSE, sheets |-> <<[sheet_name |-> "csv", table |-> table]>>]
Workbook(sheets) == [name |-> NameXlsx, bad |-> FALSE, sheets |-> sheets]
BadFile(file_name) == [name |-> file_name, bad |-> TRUE, sheets |-> <<>>]
BadFiles == {BadFile(NameCsv), BadFile(NameXlsx)}

\* the files of the one-file specification
AllFiles ==
    {CsvFile(t) : t \in Tables(CsvHeaders, Cells)}
    \cup {Workbook(<<[sheet_name |-> "Sheet1", table |-> t]>>) : t \in Tables(XlsxHeaders, XlsxCells)}
    \cup BadFiles

\* the files of the batch specification: delimited files holding the required
\* column alone and at least one row, a workbook of one row, one file whose
\* two headers normalize to the same canonical name, and the unparsable files
BatchTables(cells) ==
    {[columns |-> <<hReq>>, rows |-> rs] : rs \in RowLists(1, cells) \ {<<>>}}
BatchFiles ==
    {CsvFile(t) : t \in BatchTables(BatchCells)}
    \cup {Workbook(<<[sheet_name |-> "Sheet1",
                      table |-> [columns |-> <<hReq>>, rows |-> <<<<cOb1>>>>]]>>)}
    \cup {CsvFile([columns |-> <<hReq, hReqWs>>, rows |-> <<>>])}
    \cup BadFiles

\* the source rows of a file of the batch pool (its only table)
SourceRows(file) == IF file.bad THEN 0 ELSE Len(file.sheets[1].table.rows)

RECURSIVE TotalRows(_)
TotalRows(files) ==
    IF files = <<>> THEN 0 ELSE SourceRows(Head(files)) + TotalRows(Tail(files))

\* workbooks of the sheet-selection specification: each sheet holds one row
\* naming the sheet
SheetNamePool == {"BBDD", "Sheet1", "Sheet2", "Hoja"}
SheetOf(sheet_name) ==
    [sheet_name |-> sheet_name,
     table |-> [columns |-> <<hReq>>, rows |-> <<<<Str(<<sheet_name>>)>>>>]]
SheetFiles ==
    {Workbook([k \in DOMAIN ns |-> SheetOf(ns[k])]) :
        ns \in {q \in UNION {[1..c -> SheetNamePool] : c \in 1..MaxSheets} : IsInjective(q)}}
    \cup {CsvFile([columns |-> <<hReq>>, rows |-> <<<<cOb1>>>>])}
    \cup BadFiles

\* ------------------------------------------------------------------ state
VARIABLES
    n_files,             \* len(uploaded_files)
    uploaded_files,      \* the files of the batch taken so far, in supply order
    prefer_sheet,        \* sidebar: preferred sheet name
    allow_sheet_picker,  \* sidebar: whether st.selectbox may be asked
    pc,                  \* position of the script
    i,                   \* loop counter (0 before the first file)
    name,                \* up.name of the file in hand
    sheet,               \* read_excel_sheet: the sheet read
    picker_calls,        \* number of st.selectbox calls made so far
    df,                  \* the table read, renamed by step 2
    tmp,                 \* the frame steps 4 to 7 build
    missing,             \* step 5
    before,              \* step 7
    removed,             \* step 7
    exn,                 \* the exception in flight
    df_out,              \* the consolidated table
    warnings_log,        \* the diagnostics
    xlsx                 \* the sheet offered for download

vars ==
    <<n_files, uploaded_files, prefer_sheet, allow_sheet_picker, pc, i, name, sheet,
      picker_calls, df, tmp, missing, before, removed, exn, df_out,
      warnings_log, xlsx>>

options == <<n_files, prefer_sheet, allow_sheet_picker>>

\* lines 86-93: the state on entering the loop; the per-file names are unset
Start ==
    /\ uploaded_files = <<>>
    /\ pc = "for"
    /\ i = 0
    /\ name = EMPTY
    /\ sheet = ""
    /\ picker_calls = 0
    /\ df = EmptyFrame
    /\ tmp = EmptyFrame
    /\ missing = <<>>
    /\ before = 0
    /\ removed = 0
    /\ exn = ""
    /\ df_out = InitialDfOut
    /\ warnings_log = <<>>
    /\ xlsx = [header |-> <<>>, body |-> <<>>, written |-> FALSE]

\* a batch of up to MaxFiles files, sidebar defaults.  The model learns the
\* files of the batch one by one, as the loop takes them.
Init ==
    /\ n_files \in 1..MaxFiles
    /\ prefer_sheet = "BBDD"
    /\ allow_sheet_picker = FALSE
    /\ Start

\* one file, drawn from the wide pool, sidebar defaults
InitFile ==
    /\ n_files = 1
    /\ prefer_sheet = "BBDD"
    /\ allow_sheet_picker = FALSE
    /\ Start

\* one file; the sidebar options drawn
InitSheet ==
    /\ n_files = 1
    /\ prefer_sheet \in {"BBDD", "Sheet2"}
    /\ allow_sheet_picker \in BOOLEAN
    /\ Start


\* ---------------------------------------------------------------- actions
\* name.lower().endswith(".csv")
IsCsv(file_name) == endswith(lower(file_name.s), ".csv")

\* what st.selectbox may return for the file: one of its sheet names
PickerOffers(file) ==
    IF PickerConsulted(file, prefer_sheet, allow_sheet_picker)
    THEN Range(SheetNames(file))
    ELSE {""}

\* lines 95-104: take the next file `up` and read it (step 1); a file that
\* cannot be parsed raises into the handler
ReadStep(up) ==
    /\ pc = "for"
    /\ i < n_files
    /\ uploaded_files' = Append(uploaded_files, up)
    /\ i' = i + 1
    /\ name' = up.name
    /\ IF up.bad
       THEN /\ exn' = IF IsCsv(up.name) THEN "ParserError" ELSE "BadWorkbook"
            /\ pc' = "except"
            /\ UNCHANGED <<df, sheet, picker_calls>>
       ELSE IF IsCsv(up.name)
       THEN /\ df' = ReadTable(up.sheets[1].table)
            /\ pc' = "reconcile"
            /\ UNCHANGED <<exn, sheet, picker_calls>>
       ELSE \E pick \in PickerOffers(up) :
            /\ sheet' = read_excel_sheet(up, prefer_sheet, allow_sheet_picker, pick)
            /\ picker_calls' =
                 IF PickerConsulted(up, prefer_sheet, allow_sheet_picker)
                 THEN picker_calls + 1 ELSE picker_calls
            /\ df' = ReadTable(SheetTable(up, sheet'))
            /\ pc' = "reconcile"
            /\ UNCHANGED exn
    /\ UNCHANGED <<options, tmp, missing, before, removed, df_out, warnings_log, xlsx>>

\* lines 106-129: steps 2 to 6
ReconcileStep ==
    /\ pc = "reconcile"
    /\ LET renamed == RenameColumns(df)
           built == BuildTmp(renamed, present_norm(renamed), EmptyFrame)
       IN  /\ df' = renamed
           /\ IF built.raised
              THEN /\ tmp' = built.frame
                   /\ exn' = "ValueError"
                   /\ pc' = "except"
                   /\ UNCHANGED missing
              ELSE /\ missing' = MissingOf(built.frame)
                   /\ tmp' = Reorder(built.frame, name)
                   /\ pc' = "validate"
                   /\ UNCHANGED exn
    /\ UNCHANGED <<options, uploaded_files, i, name, sheet, picker_calls, before, removed, df_out,
                   warnings_log, xlsx>>

\* line 136
RemovedCount(n_before, n_after) == n_before - n_after

\* a warning written whether or not a row was removed
DiscardWarningAlways(log, file_name, n_removed) ==
    Append(log, DiscardLine(file_name, n_removed))

\* lines 137-138
DiscardWarning(log, file_name, n_removed) ==
    IF n_removed > 0 THEN Append(log, DiscardLine(file_name, n_removed)) ELSE log

\* lines 131-138: step 7
ValidateStep ==
    /\ pc = "validate"
    /\ LET trimmed == trim_text_df(tmp)
           kept == SelectSeq(trimmed.rows, LAMBDA row : mask_valid(trimmed, row))
       IN  /\ before' = Len(trimmed.rows)
           /\ tmp' = [columns |-> trimmed.columns, rows |-> kept]
           /\ removed' = RemovedCount(Len(trimmed.rows), Len(kept))
           /\ warnings_log' = DiscardWarning(warnings_log, name, removed')
    /\ pc' = "concat"
    /\ UNCHANGED <<options, uploaded_files, i, name, sheet, picker_calls, df, missing, exn, df_out, xlsx>>

\* lines 140-145: steps 8 and 9 (the progress bar is not modelled)
ConcatStep ==
    /\ pc = "concat"
    /\ df_out' = concat(df_out, tmp)
    /\ warnings_log' =
         IF missing # <<>> THEN Append(warnings_log, MissingLine(name, missing))
         ELSE warnings_log
    /\ pc' = "for"
    /\ UNCHANGED <<options, uploaded_files, i, name, sheet, picker_calls, df, tmp, missing, before,
                   removed, exn, xlsx>>

\* a handler that logs the error and leaves the loop
ExceptStepBreak ==
    /\ pc = "except"
    /\ warnings_log' = Append(warnings_log, ErrorLine(name, exn))
    /\ exn' = ""
    /\ xlsx' = excel_to_bytes(df_out)
    /\ pc' = "done"
    /\ UNCHANGED <<options, uploaded_files, i, name, sheet, picker_calls, df, tmp,
                   missing, before, removed, df_out>>

\* lines 147-148: the handler; the loop goes on with the next file
ExceptStep ==
    /\ pc = "except"
    /\ warnings_log' = Append(warnings_log, ErrorLine(name, exn))
    /\ exn' = ""
    /\ pc' = "for"
    /\ UNCHANGED <<options, uploaded_files, i, name, sheet, picker_calls, df, tmp, missing, before,
                   removed, df_out, xlsx>>

\* lines 153-163: after the loop, the consolidated sheet is offered
ExportStep ==
    /\ pc = "for"
    /\ i = n_files
    /\ xlsx' = excel_to_bytes(df_out)
    /\ pc' = "done"
    /\ UNCHANGED <<options, uploaded_files, i, name, sheet, picker_calls, df, tmp, missing, before,
                   removed, exn, df_out, warnings_log>>

\* the loop's next file, drawn from each specification's pool
ReadBatch ==
    /\ pc = "for"
    /\ \E up \in BatchFiles :
          /\ TotalRows(uploaded_files) + SourceRows(up) <= MaxTotalRows
          /\ ReadStep(up)
ReadFile ==
    /\ pc = "for"
    /\ \E up \in AllFiles : ReadStep(up)
ReadSheet ==
    /\ pc = "for"
    /\ \E up \in SheetFiles : ReadStep(up)

Rest ==
    \/ ReconcileStep
    \/ ValidateStep
    \/ ConcatStep
    \/ ExceptStep
    \/ ExportStep

Next == ReadBatch \/ Rest
NextFile == ReadFile \/ Rest
NextSheet == ReadSheet \/ Rest

\* the batch loop over up to MaxFiles files
Spec == Init /\ [][Next]_vars

\* one file of any shape the bounds allow
SpecFile == InitFile /\ [][NextFile]_vars

\* one file, every setting of the sheet options
SpecSheet == InitSheet /\ [][NextSheet]_vars


\* ------------------------------------------------------------ properties
\* a row as a mapping from the output's labels to its cells
RowMap(frame, r) == [h \in Range(ORDERED_COLS) |-> CellAt(frame, r, h)]
RowMaps(frame) == [r \in DOMAIN frame.rows |-> RowMap(frame, r)]

\* the table the loop reads from a file under the sidebar settings in force
FileTable(file) ==
    IF IsCsv(file.name) THEN file.sheets[1].table
    ELSE SheetTable(file, read_excel_sheet(file, prefer_sheet, allow_sheet_picker,
                                           SheetNames(file)[1]))

\* whether two raw headers of the table normalize to one canonical name
HasDuplicateCanonical(table) ==
    \E j, k \in DOMAIN table.columns :
        /\ j # k
        /\ normalize_header(table.columns[j]) = normalize_header(table.columns[k])
        /\ normalize_header(table.columns[j]) \in Range(norm_headers)

\* rows(f): what steps 1 to 7 yield for one file on its own
FileRaises(file) == file.bad \/ HasDuplicateCanonical(FileTable(file))
FileRows(file) ==
    LET d == RenameColumns(ReadTable(FileTable(file)))
        t == trim_text_df(Reorder(BuildTmp(d, present_norm(d), EmptyFrame).frame, file.name))
    IN  RowMaps([columns |-> t.columns,
                 rows |-> SelectSeq(t.rows, LAMBDA row : mask_valid(t, row))])

RECURSIVE SurvivingRows(_)
SurvivingRows(files) ==
    IF files = <<>> THEN <<>>
    ELSE (IF FileRaises(Head(files)) THEN <<>> ELSE FileRows(Head(files)))
         \o SurvivingRows(Tail(files))

Failing(files) == SelectSeq(files, FileRaises)
ErrorLines(log) == SelectSeq(log, LAMBDA e : e.kind = "ERROR")
LinesNaming(log, file_name) == {k \in DOMAIN log : log[k].name = file_name}

\* C1: between files and after the loop, the consolidated rows are exactly
\* rows(f) of the files taken so far that did not raise, concatenated in
\* supply order; the error lines of the log name the files that raised, one
\* line each, in supply order; a raising file whose name no other file of
\* the batch bears is named by exactly one line of the log; and the loop
\* only ends once every file of the batch has been taken.
C1_PartialFailure ==
    pc \in {"for", "done"} =>
        /\ RowMaps(df_out) = SurvivingRows(uploaded_files)
        /\ [k \in DOMAIN ErrorLines(warnings_log) |-> ErrorLines(warnings_log)[k].name]
              = [k \in DOMAIN Failing(uploaded_files) |-> Failing(uploaded_files)[k].name]
        /\ \A k \in DOMAIN uploaded_files :
              (/\ FileRaises(uploaded_files[k])
               /\ \A j \in DOMAIN uploaded_files :
                     uploaded_files[j].name = uploaded_files[k].name => j = k)
              => Cardinality(LinesNaming(warnings_log, uploaded_files[k].name)) = 1
        /\ pc = "done" => Len(uploaded_files) = n_files /\ i = n_files

\* C1 witness: [good1, bad, good2] done; both good files' rows are out and
\* the log has one error line
C1_Witness ==
    /\ pc = "done"
    /\ Len(uploaded_files) = 3
    /\ ~uploaded_files[1].bad /\ uploaded_files[2].bad /\ ~uploaded_files[3].bad
    /\ Len(df_out.rows) = 2
    /\ CellAt(df_out, 1, FILE_NAME) = uploaded_files[1].name
    /\ CellAt(df_out, 2, FILE_NAME) = uploaded_files[3].name
    /\ Len(ErrorLines(warnings_log)) = 1

\* C3: in every state the consolidated table's columns are "File name"
\* followed by HEADERS in order, and so is the exported header row.
C3_ColumnOrder ==
    /\ df_out.columns = ORDERED_COLS
    /\ xlsx.written => xlsx.header = ORDERED_COLS


\* the cell of the source table (as renamed by step 2) that a surviving row
\* of tmp was read from, under the required column
SourceRequired(row) ==
    df.rows[row.ix + 1].cells[CHOOSE k \in Positions(df, normalize_header(NUMERO_OBRA)) : TRUE]

\* C4: step 8 appends the file's surviving rows after the rows already
\* consolidated, which stay an unchanged prefix; the surviving rows are in
\* source row order, each is its source row (same required value, trimmed;
\* provenance the file in hand), none is dropped as a duplicate; and no
\* other step touches the consolidated table.
C4_OrderPreserved ==
    [][ /\ pc = "concat" =>
             /\ RowMaps(df_out') = RowMaps(df_out) \o RowMaps(tmp)
             /\ \A r \in DOMAIN tmp.rows :
                   /\ tmp.rows[r].ix \in 0..(Len(df.rows) - 1)
                   /\ r > 1 => tmp.rows[r - 1].ix < tmp.rows[r].ix
                   /\ CellAt(tmp, r, NUMERO_OBRA).s = strip(SourceRequired(tmp.rows[r]).s)
                   /\ CellAt(tmp, r, FILE_NAME) = name
        /\ pc # "concat" => df_out' = df_out ]_vars

\* C4 witness: two files of the same name with the same single row are
\* both consolidated
C4_Witness ==
    /\ pc = "done"
    /\ Len(uploaded_files) = 2
    /\ uploaded_files[1] = uploaded_files[2]
    /\ Len(df_out.rows) = 2
    /\ df_out.rows[1].cells = df_out.rows[2].cells


\* the file in hand
Up == uploaded_files[i]

DiscardLines(log) == SelectSeq(log, LAMBDA e : e.kind = "descartadas")

\* the column of the source table (as renamed by step 2) that carries the
\* normalized form of a canonical name, when exactly one does
SourceColumn(h) == CHOOSE k \in Positions(df, normalize_header(h)) : TRUE

\* C2: once step 7 has run on a file, a source row is among the surviving
\* rows iff its required cell, as read, is neither missing nor empty after
\* trimming; and every consolidated row has a required value that is
\* neither empty nor missing.
C2_RequiredField ==
    /\ pc = "concat" =>
         \A j \in DOMAIN df.rows :
            (\E r \in DOMAIN tmp.rows : tmp.rows[r].ix = df.rows[j].ix)
            <=> /\ Positions(df, normalize_header(NUMERO_OBRA)) # {}
                /\ notna(df.rows[j].cells[SourceColumn(NUMERO_OBRA)])
                /\ strip(df.rows[j].cells[SourceColumn(NUMERO_OBRA)].s) # <<>>
    /\ \A r \in DOMAIN df_out.rows :
          /\ notna(CellAt(df_out, r, NUMERO_OBRA))
          /\ strip(CellAt(df_out, r, NUMERO_OBRA).s) # <<>>

\* C5: once steps 2 to 6 have run on a source table, tmp is the reconciled
\* table: its columns are "File name" and HEADERS in order; a canonical
\* column whose normalized name is the normalized form of a source header
\* holds that source column's values in row order and is not in missing;
\* any other canonical column is empty text in every row and is in missing;
\* the provenance cell of every row is the file's name.
C5_Reconciliation ==
    (pc = "validate" \/ (pc = "except" /\ exn = "ValueError")) =>
        /\ tmp.columns = ORDERED_COLS
        /\ \A n \in DOMAIN HEADERS :
              IF Positions(df, normalize_header(HEADERS[n])) # {}
              THEN /\ \E p \in Positions(df, normalize_header(HEADERS[n])) :
                         [r \in DOMAIN tmp.rows |-> CellAt(tmp, r, HEADERS[n])]
                            = [r \in DOMAIN df.rows |-> df.rows[r].cells[p]]
                   /\ ~(HEADERS[n] \in Range(missing))
              ELSE /\ \A r \in DOMAIN tmp.rows : CellAt(tmp, r, HEADERS[n]) = EMPTY
                   /\ HEADERS[n] \in Range(missing)
        /\ \A r \in DOMAIN tmp.rows : CellAt(tmp, r, FILE_NAME) = name

\* C6: for a workbook that was read, the sheet is the preferred name when
\* the workbook has it, wherever it stands and whatever the picker setting;
\* the first sheet when it is absent and the picker is off; st.selectbox is
\* called only when the name is absent and the picker is on; and the table
\* read is the selected sheet's.
C6_SheetSelection ==
    (pc = "reconcile" /\ ~IsCsv(name)) =>
        /\ prefer_sheet \in Range(SheetNames(Up)) =>
              sheet = prefer_sheet /\ picker_calls = 0
        /\ (~(prefer_sheet \in Range(SheetNames(Up))) /\ ~allow_sheet_picker) =>
              sheet = SheetNames(Up)[1] /\ picker_calls = 0
        /\ picker_calls > 0 =>
              ~(prefer_sheet \in Range(SheetNames(Up))) /\ allow_sheet_picker
        /\ sheet \in Range(SheetNames(Up))
        /\ df = ReadTable(SheetOf(sheet).table)

\* C6 witness: the preferred sheet stands second, the picker is on, and the
\* preferred sheet is read without asking
C6_Witness ==
    /\ pc = "reconcile"
    /\ ~IsCsv(name)
    /\ SheetNames(Up) = <<"Sheet1", "BBDD">>
    /\ prefer_sheet = "BBDD"
    /\ allow_sheet_picker
    /\ sheet = "BBDD"
    /\ picker_calls = 0

\* C7: step 7 appends a "rows discarded" line for the file iff it removes
\* at least one row, and appends nothing else; the count in the line is
\* the number of rows removed, which is the number of the file's source
\* rows that are not among the rows step 8 consolidates; no other step
\* adds or drops a "rows discarded" line.
C7_DiscardDiagnostics ==
    /\ [][ pc = "validate" =>
             IF Len(tmp'.rows) < Len(tmp.rows)
             THEN /\ warnings_log' =
                       Append(warnings_log, DiscardLine(name, Len(tmp.rows) - Len(tmp'.rows)))
                  /\ Len(tmp.rows) - Len(tmp'.rows) = Len(df.rows) - Len(tmp'.rows)
             ELSE warnings_log' = warnings_log ]_vars
    /\ [][ pc # "validate" => DiscardLines(warnings_log') = DiscardLines(warnings_log) ]_vars

\* C7 witness: of a file's two rows one was removed and the line says 1
C7_Witness ==
    /\ pc = "concat"
    /\ Len(df.rows) = 2
    /\ Len(tmp.rows) = 1
    /\ DiscardLines(warnings_log) = <<DiscardLine(name, 1)>>

\* C8: a file two of whose headers normalize to one canonical name is
\* processed without error: nothing is raised, the canonical column takes
\* the values of the last such header, the rows are accumulated and the
\* log has no error line.
C8_DuplicateHeaders ==
    (i >= 1 /\ ~Up.bad /\ HasDuplicateCanonical(FileTable(Up))) =>
        /\ pc # "except"
        /\ ErrorLines(warnings_log) = <<>>
        /\ pc = "validate" =>
              \A n \in DOMAIN HEADERS :
                 Positions(df, normalize_header(HEADERS[n])) # {} =>
                    [r \in DOMAIN tmp.rows |-> CellAt(tmp, r, HEADERS[n])]
                       = [r \in DOMAIN df.rows |->
                             df.rows[r].cells[
                                CHOOSE p \in Positions(df, normalize_header(HEADERS[n])) :
                                   \A q \in Positions(df, normalize_header(HEADERS[n])) : q <= p]]
        /\ pc = "done" => Len(df_out.rows) = Len(tmp.rows)

\* C9: the reconciled table, before validation, has one row per source row,
\* whichever canonical columns the file has.
C9_RowCount ==
    pc = "validate" =>
        /\ Len(tmp.rows) = Len(df.rows)
        /\ \A r \in DOMAIN tmp.rows : tmp.rows[r].ix = df.rows[r].ix

\* C10: after a file is consolidated, every cell of a consolidated row under
\* a canonical column the source file has is the source cell's text with
\* the surrounding whitespace removed, and a source cell that was missing
\* is empty or missing in the output.
C10_CellFidelity ==
    (pc \in {"for", "done"} /\ i = 1 /\ ErrorLines(warnings_log) = <<>>) =>
        \A r \in DOMAIN df_out.rows :
           \A n \in DOMAIN HEADERS :
              Positions(df, normalize_header(HEADERS[n])) # {} =>
                 IF notna(df.rows[tmp.rows[r].ix + 1].cells[SourceColumn(HEADERS[n])])
                 THEN CellAt(df_out, r, HEADERS[n]) =
                        Str(strip(df.rows[tmp.rows[r].ix + 1].cells[SourceColumn(HEADERS[n])].s))
                 ELSE CellAt(df_out, r, HEADERS[n]) \in {EMPTY, NaN}

=============================================================================
